---- MODULE Spec2Model ----
(***************************************************************************)
(* Model of the retrieval layer of AgenticAI:                              *)
(*   src/src/database/enhanced_vector_db.py  (EnhancedVectorDB)            *)
(*   src/src/vector_db.py                    (VectorDB, the legacy writer  *)
(*                                            of the same file and table)  *)
(*                                                                         *)
(* Numbers.  Embedding components are small naturals.  A similarity score  *)
(* is kept exactly, as a number of the form  a + b * sqrt(r)  with a, b, r *)
(* rationals (cosine = sqrt(dot^2 / (|q|^2 |e|^2)), the relational score   *)
(* 1 - sqrt(squared distance), a blended score 0.3*overlap + 0.7*score).   *)
(* Scores are compared exactly, so a tie in the model is a tie of the real *)
(* numbers the floating-point code approximates.                           *)
(***************************************************************************)
EXTENDS Integers, Sequences, FiniteSets, TLC

VARIABLES
    use_postgres,   \* self._use_postgres, fixed by the constructor
    file,           \* the flat file at self._json_path
    table,          \* the rows of document_embeddings, in physical order
    now,            \* the wall clock datetime.now() reads
    conn,           \* the connection the last call opened: "none", "closed", "open"
    pre,            \* history: the persisted store before the last call
    call            \* the last completed call: operation, arguments, result

vars == <<use_postgres, file, table, now, conn, pre, call>>

(***************************************************************************)
(* Bounds of the model.                                                    *)
(***************************************************************************)
MaxRecords == 3     \* records the store may hold

\* self.embed_dim = int(os.getenv("EMBED_DIM", "768")), run with EMBED_DIM=2
\* (the dimension of the spec's own ranking scenario)
embed_dim == 2

(***************************************************************************)
(* Small helpers.                                                          *)
(***************************************************************************)
Min(a, b) == IF a <= b THEN a ELSE b
Max(a, b) == IF a >= b THEN a ELSE b
Range(s) == {s[i] : i \in 1..Len(s)}
\* dict.get(key, default)
Get(d, k, default) == IF k \in DOMAIN d THEN d[k] ELSE default
\* s[:n] of Python, for every integer n
Slice(s, n) ==
    LET m == IF n >= 0 THEN Min(n, Len(s)) ELSE Max(Len(s) + n, 0)
    IN  SubSeq(s, 1, m)
(***************************************************************************)
(* Values of the metadata bag: a Python value with its type, since         *)
(* 2 == "2" is False in Python while str(2) == "2".                        *)
(***************************************************************************)
IntVal(n) == [ty |-> "int", v |-> n]
StrVal(s) == [ty |-> "str", v |-> s]
\* None
PyNone == [ty |-> "none"]
\* datetime.now().isoformat(): a string; the model keeps the clock reading,
\* whose order is the lexicographic order of the ISO strings
TsVal(t) == [ty |-> "str", ts |-> t]
\* the empty dict {}
EmptyDict == <<>>
\* the clock readings of the model
Clock == {0, 1}
LastTick == CHOOSE t \in Clock : \A u \in Clock : u <= t

(***************************************************************************)
(* Exact arithmetic.  A rational is <<n, d>> with d > 0, in lowest terms.  *)
(***************************************************************************)
Abs(x) == IF x < 0 THEN -x ELSE x
Sgn(x) == IF x < 0 THEN -1 ELSE IF x = 0 THEN 0 ELSE 1
RECURSIVE Gcd(_, _)
Gcd(a, b) == IF b = 0 THEN a ELSE Gcd(b, a % b)
Rat(n, d) ==
    LET g == Gcd(Abs(n), Abs(d))
        s == IF d < 0 THEN -1 ELSE 1
    IN  <<(s * n) \div g, (s * d) \div g>>
RInt(n) == <<n, 1>>
RAdd(x, y) == Rat(x[1] * y[2] + y[1] * x[2], x[2] * y[2])
RSub(x, y) == Rat(x[1] * y[2] - y[1] * x[2], x[2] * y[2])
RMul(x, y) == Rat(x[1] * y[1], x[2] * y[2])
RSgn(x) == Sgn(x[1])
RLe(x, y) == x[1] * y[2] <= y[1] * x[2]
RLt(x, y) == x[1] * y[2] < y[1] * x[2]

(***************************************************************************)
(* A score is [a, b, r], the real number (a + b * sqrt(r)) / 10, with a, b *)
(* and r rationals and r >= 0.                                             *)
(***************************************************************************)
\* is the rational m >= the real  sn * sqrt(n2)  (sn its sign, n2 its square)
RatGeSurd(m, sn, n2) ==
    IF sn <= 0
    THEN RSgn(m) >= 0 \/ RLe(RMul(m, m), n2)
    ELSE RSgn(m) >= 0 /\ RLe(n2, RMul(m, m))
RatLeSurd(m, sn, n2) ==
    IF sn >= 0
    THEN RSgn(m) <= 0 \/ RLe(RMul(m, m), n2)
    ELSE RSgn(m) <= 0 /\ RLe(n2, RMul(m, m))
\* x >= y as real numbers
ScoreGe(x, y) ==
    LET q == RSub(y.a, x.a)                     \* b1 sqrt(r1) - b2 sqrt(r2) >= q
        su == RSgn(x.b) * RSgn(x.r)
        sv == RSgn(y.b) * RSgn(y.r)
        u2 == RMul(RMul(x.b, x.b), x.r)
        v2 == RMul(RMul(y.b, y.b), y.r)
        \* the sign of w = u - v
        sw == IF su # sv THEN Sgn(su - sv)
              ELSE IF u2 = v2 THEN 0
              ELSE IF RLt(v2, u2) THEN su ELSE -su
        m == RSub(RAdd(u2, v2), RMul(q, q))     \* w^2 - q^2 = m - 2uv
        n2 == RMul(RInt(4), RMul(u2, v2))       \* (2uv)^2
        sn == su * sv
    IN  CASE x.a = y.a /\ x.b = y.b ->           \* the same a and b: compare r
                IF RSgn(x.b) >= 0 THEN RLe(y.r, x.r) ELSE RLe(x.r, y.r)
          [] RSgn(q) = 0 -> sw >= 0
          [] RSgn(q) < 0 /\ sw >= 0 -> TRUE
          [] RSgn(q) > 0 /\ sw <= 0 -> FALSE
          [] RSgn(q) > 0 /\ sw > 0 -> RatGeSurd(m, sn, n2)
          [] RSgn(q) < 0 /\ sw < 0 -> RatLeSurd(m, sn, n2)
ScoreGt(x, y) == ~ScoreGe(y, x)
ScoreEq(x, y) == ScoreGe(x, y) /\ ScoreGe(y, x)

(***************************************************************************)
(* Text.  A string is the sequence of its whitespace-separated words; ""   *)
(* is <<>>.                                                                *)
(***************************************************************************)
\* str.lower() on one word
Lower(w) == CASE w = "Alpha" -> "alpha" [] w = "Beta" -> "beta" [] OTHER -> w
\* set(text.lower().split())
WordSet(text) == {Lower(text[i]) : i \in 1..Len(text)}

(***************************************************************************)
(* The embedding provider (external): it raises, answers without an        *)
(* "embedding", or answers a vector of any length.                         *)
(***************************************************************************)
ProviderRaises == [kind |-> "raise"]
ProviderNoEmbedding == [kind |-> "none"]
ProviderVector(v) == [kind |-> "vec", vec |-> v]
ZeroVector == [i \in 1..embed_dim |-> 0]
IsZero(v) == \A i \in 1..Len(v) : v[i] = 0

\* a longer vector kept as it is (the slice of line 377 forgotten)
_embed_text_truncate_kept(vector) == vector
\* vector[:embed_dim] of a longer vector
_embed_text_truncate(vector) == SubSeq(vector, 1, embed_dim)
\* vector + [0.0] * (embed_dim - len(vector)) of a shorter one
_embed_text_pad(vector) ==
    [i \in 1..embed_dim |-> IF i <= Len(vector) THEN vector[i] ELSE 0]
\* a fallback vector that is not the zero vector
_embed_text_unit_fallback(response) ==
    IF response.kind = "vec"
    THEN [i \in 1..embed_dim |-> IF i <= Len(response.vec) THEN response.vec[i] ELSE 0]
    ELSE [i \in 1..embed_dim |-> IF i = 1 THEN 1 ELSE 0]
\* EnhancedVectorDB._embed_text and VectorDB._embed_text, on the provider's
\* answer `response` to the request
_embed_text(response) ==
    IF response.kind = "raise" THEN ZeroVector          \* except Exception
    ELSE IF response.kind = "none" THEN ZeroVector      \* ValueError, caught
    ELSE LET vector == response.vec
         IN  IF Len(vector) # embed_dim
             THEN IF Len(vector) > embed_dim
                  THEN _embed_text_truncate(vector)
                  ELSE _embed_text_pad(vector)
             ELSE vector

(***************************************************************************)
(* Vector arithmetic.                                                      *)
(***************************************************************************)
RECURSIVE SumTo(_, _)
SumTo(f, n) == IF n = 0 THEN 0 ELSE f[n] + SumTo(f, n - 1)
Dot(a, b) == SumTo([i \in 1..Min(Len(a), Len(b)) |-> a[i] * b[i]], Min(Len(a), Len(b)))
Norm2(a) == Dot(a, a)
Dist2(a, b) == SumTo([i \in 1..Len(a) |-> (a[i] - b[i]) * (a[i] - b[i])], Len(a))
ZeroScore == [a |-> RInt(0), b |-> RInt(10), r |-> RInt(0)]
\* the division by the norms left out: the dot product as it is
_cosine_similarity_dot_only(a, b) ==
    [a |-> RInt(10 * Dot(a, b)), b |-> RInt(0), r |-> RInt(0)]
\* EnhancedVectorDB._cosine_similarity: dot / (|a| |b|), 0.0 when the
\* denominator is 0; the cosine is the root of dot^2 / (|a|^2 |b|^2) with
\* the sign of the dot product
_cosine_similarity(a, b) ==
    IF Norm2(a) * Norm2(b) = 0
    THEN ZeroScore
    ELSE [a |-> RInt(0), b |-> IF Dot(a, b) < 0 THEN RInt(-10) ELSE RInt(10),
          r |-> Rat(Dot(a, b) * Dot(a, b), Norm2(a) * Norm2(b))]
\* EnhancedVectorDB._to_pgvector: every component printed with 8 decimals;
\* a component of the model is a whole number, which 8 decimals keep
_to_pgvector(vector) == [i \in 1..Len(vector) |-> (vector[i] * 100000000) \div 100000000]
\* the relational `embedding <-> query` (Euclidean distance), turned into
\* the score 1 - float(distance) of _search_postgres
DistanceScore(a, b) == [a |-> RInt(10), b |-> RInt(-10), r |-> RInt(Dist2(a, b))]

\* a stable descending sort: list.sort(key=..., reverse=True) keeps the
\* original order of elements with equal keys.  gt[i][j] says that the key
\* of s[i] is greater than the key of s[j].
StableSortDesc(s, gt) ==
    LET n == Len(s)
        pos == [i \in 1..n |->
                  Cardinality({j \in 1..n : gt[j][i]})
                  + Cardinality({j \in 1..(i - 1) : ~gt[i][j] /\ ~gt[j][i]})
                  + 1]
        at == [p \in 1..n |-> CHOOSE i \in 1..n : pos[i] = p]
    IN  [p \in 1..n |-> s[at[p]]]
\* the comparison of the "score" keys of the results s
ByScore(s) ==
    [i \in 1..Len(s) |-> [j \in 1..Len(s) |-> ScoreGt(s[i].score, s[j].score)]]
\* the orders a relational ORDER BY may return: every arrangement of the
\* rows that is sorted, rows with equal keys in any order
Perms(n) == {f \in [1..n -> 1..n] : \A i, j \in 1..n : f[i] = f[j] => i = j}
OrderBy(s, gt) ==
    LET n == Len(s)
    IN  {[p \in 1..n |-> s[f[p]]] : f \in
            {g \in Perms(n) : \A p, q \in 1..n : p < q => ~gt[g[q]][g[p]]}}

(***************************************************************************)
(* The flat file at self._json_path: absent, a JSON array of records, or   *)
(* text that does not parse.  A record is the dict written by              *)
(* store_document; the legacy VectorDB writes records without "metadata".  *)
(***************************************************************************)
AbsentFile == [kind |-> "absent", recs |-> <<>>]
CorruptFile == [kind |-> "corrupt", recs |-> <<>>]
\* text that parses, but to a JSON object (a non-empty dict), not to an array
ObjectFile == [kind |-> "object", recs |-> <<>>]
\* what json.load returns for it: a dict, which has no append and whose
\* items are its keys, strings without a get; kept as the collection of its
\* one item
NotAList == <<[py |-> "dict key"]>>
ArrayFile(records) == [kind |-> "array", recs |-> records]
\* a loader that answers the records the facade found when it was
\* constructed (none), not those of the file
_json_load_at_construction(f, rd) == <<>>
\* a loader that answers a list holding one blank record where _json_load
\* answers the empty list
_json_load_blank_record(f, rd) ==
    IF f.kind = "object" /\ rd = "ok" THEN NotAList
    ELSE IF f.kind = "array" /\ rd = "ok" /\ f.recs # <<>> THEN f.recs
    ELSE <<[document_name |-> "", chunk_text |-> <<>>, embedding |-> ZeroVector]>>
\* _json_load; rd is what the read does: "ok" or "ioerror"
_json_load(f, rd) ==
    IF f.kind = "absent" THEN <<>>              \* not os.path.exists
    ELSE IF rd = "ioerror" THEN <<>>            \* open or read raises: return []
    ELSE IF f.kind = "corrupt" THEN <<>>        \* json.load raises: return []
    ELSE IF f.kind = "object" THEN NotAList     \* json.load returns the dict
    ELSE f.recs
\* _json_save; wr is what the write does: "ok", "unwritable" (open fails,
\* the file is untouched) or "partial" (the dump breaks off after open
\* truncated the file).  Every exception is caught and printed.
_json_save(f, records, wr) ==
    IF wr = "unwritable" THEN f
    ELSE IF wr = "partial" THEN CorruptFile
    ELSE IF records = NotAList THEN ObjectFile
    ELSE ArrayFile(records)
\* the records a reader finds in the file
FileRecords(f) == IF f.kind = "array" THEN f.recs ELSE <<>>

(***************************************************************************)
(* Exceptions.  The body of every public method runs inside                *)
(*   try: ... except Exception as e: print(...); return <default>          *)
(* An exception is named by its class, "none" when the body ends normally. *)
(***************************************************************************)
NoException == "none"
\* the classes the bodies can raise; each derives from Exception
ExceptionClasses == {"psycopg2.OperationalError", "psycopg2.Error", "TypeError",
                     "AttributeError"}
\* `except psycopg2.Error` in the place of `except Exception`
handler_catches_database_errors(exc) ==
    exc \in {"psycopg2.OperationalError", "psycopg2.Error"}
\* `except Exception` takes the exception
handler_catches(exc) == exc \in ExceptionClasses
\* the exception reaches the caller of the public method
propagates(exc) == exc # NoException /\ ~handler_catches(exc)
\* what the statements on a connection raise: connect when the database is
\* unreachable, execute or commit when the statement fails
db_exception(db) ==
    CASE db.kind = "unreachable" -> "psycopg2.OperationalError"
      [] db.kind = "stmt_error" -> "psycopg2.Error"
      [] OTHER -> NoException
\* records.append(...) on, or rec.get(...) of an item of, what _json_load
\* returned
not_a_list_exception(records) ==
    IF records = NotAList THEN "AttributeError" ELSE NoException

(***************************************************************************)
(* store_document                                                          *)
(***************************************************************************)
\* {"timestamp": ..., "document_name": ..., "num_chunks": ..., **metadata}:
\* the caller's values stay
store_document_metadata_caller_wins(metadata, document_name, chunks, timestamp) ==
    (IF metadata = PyNone THEN EmptyDict ELSE metadata)
    @@ ("timestamp" :> TsVal(timestamp))
    @@ ("document_name" :> StrVal(document_name))
    @@ ("num_chunks" :> IntVal(Len(chunks)))
\* lines 47-54: metadata = {} when None, then metadata.update({...})
store_document_metadata(metadata, document_name, chunks, timestamp) ==
    ("timestamp" :> TsVal(timestamp))
    @@ ("document_name" :> StrVal(document_name))
    @@ ("num_chunks" :> IntVal(Len(chunks)))
    @@ (IF metadata = PyNone THEN EmptyDict ELSE metadata)
\* {"chunk_index": idx, **metadata}: a chunk_index of the caller stays
chunk_metadata_caller_wins(metadata, idx) == metadata @@ ("chunk_index" :> IntVal(idx))
\* {**metadata, "chunk_index": idx}
chunk_metadata(metadata, idx) == ("chunk_index" :> IntVal(idx)) @@ metadata
\* the record of chunk idx (0-based), lines 85-93
store_document_record(chunks, document_name, metadata, responses, idx) ==
    [document_name |-> document_name,
     chunk_text |-> chunks[idx + 1],
     embedding |-> _embed_text(responses[idx + 1]),
     metadata |-> chunk_metadata(metadata, idx)]
\* the row of chunk idx, lines 62-77
store_document_row(chunks, document_name, metadata, responses, idx) ==
    [document_name |-> document_name,
     chunk_text |-> chunks[idx + 1],
     embedding |-> _to_pgvector(_embed_text(responses[idx + 1])),
     metadata |-> chunk_metadata(metadata, idx)]
\* a batch that gives up at the first chunk the provider fails for: nothing
\* is saved
store_document_json_aborting(f, chunks, document_name, metadata, responses, rd, wr) ==
    IF \E i \in 1..Len(chunks) : responses[i].kind # "vec"
    THEN f
    ELSE _json_save(f, _json_load(f, rd) \o
            [i \in 1..Len(chunks) |->
                store_document_record(chunks, document_name, metadata, responses, i - 1)],
            wr)
\* lines 83-95: the file after the flat-file branch
store_document_json(f, chunks, document_name, metadata, responses, rd, wr) ==
    LET records == _json_load(f, rd)
    IN  IF records = NotAList
        THEN IF chunks = <<>>
             THEN _json_save(f, records, wr)    \* the loop does not run
             ELSE f                             \* records.append raises
        ELSE _json_save(f, records \o
                [i \in 1..Len(chunks) |->
                    store_document_record(chunks, document_name, metadata, responses, i - 1)],
                wr)
\* the exception the body of store_document ends with
store_document_exception(postgres, f, chunks, rd, db) ==
    IF postgres THEN db_exception(db)
    ELSE IF chunks = <<>> THEN NoException
    ELSE not_a_list_exception(_json_load(f, rd))
\* lines 58-81: the table after the relational branch.  db is what the
\* database does: "ok", "unreachable" (connect raises) or "stmt_error" (a
\* statement or the commit raises).  The inserts run in the connection's
\* implicit transaction, so without the commit of line 79 none is kept.
\* the number of INSERTs of a batch of n that are carried out: all when the
\* database works, db.after when a statement fails or the process dies
\* after that many, none when the connection cannot be made
InsertsDone(db, n) ==
    IF db.kind = "ok" THEN n
    ELSE IF "after" \in DOMAIN db THEN Min(db.after, n)
    ELSE 0
\* a connection in autocommit mode: every INSERT carried out is kept
pg_transaction_end_autocommit(t, inserted, db) == t \o inserted
\* the table after the rows `inserted` were added in the transaction that
\* psycopg2 opens with the first statement: kept by the commit of line 79,
\* dropped by the server when the connection goes away without it
pg_transaction_end(t, inserted, db) ==
    IF db.kind = "ok" THEN t \o inserted ELSE t
store_document_postgres(t, chunks, document_name, metadata, responses, db) ==
    pg_transaction_end(t,
        [i \in 1..InsertsDone(db, Len(chunks)) |->
            store_document_row(chunks, document_name, metadata, responses, i - 1)],
        db)
\* the connection a call leaves behind: close() is reached only when no
\* statement raised
ConnAfter(db) ==
    CASE db.kind \in {"unreachable", "crash"} -> "none"
      [] db.kind = "stmt_error" -> "open"
      [] OTHER -> "closed"

\* VectorDB.store_document (src/src/vector_db.py): the same file and table,
\* records and rows without metadata
legacy_record(chunks, document_name, responses, idx) ==
    [document_name |-> document_name,
     chunk_text |-> chunks[idx + 1],
     embedding |-> _embed_text(responses[idx + 1])]
legacy_store_json(f, chunks, document_name, responses, rd, wr) ==
    LET records == _json_load(f, rd)
    IN  IF records = NotAList
        THEN IF chunks = <<>> THEN _json_save(f, records, wr) ELSE f
        ELSE _json_save(f, records \o
                [i \in 1..Len(chunks) |->
                    legacy_record(chunks, document_name, responses, i - 1)],
                wr)
legacy_store_postgres(t, chunks, document_name, responses, db) ==
    IF db.kind = "ok"
    THEN t \o [i \in 1..Len(chunks) |->
                [document_name |-> document_name,
                 chunk_text |-> chunks[i],
                 embedding |-> _to_pgvector(_embed_text(responses[i]))]]
    ELSE t

(***************************************************************************)
(* delete_document                                                         *)
(***************************************************************************)
\* lines 303-306: [rec for rec in records if rec.get("document_name") != name]
delete_filter(records, document_name) ==
    SelectSeq(records, LAMBDA rec : Get(rec, "document_name", PyNone) # document_name)
\* lines 302-307
delete_document_json(f, document_name, rd, wr) ==
    LET records == _json_load(f, rd)
    IN  IF records = NotAList
        THEN f                                  \* rec.get raises
        ELSE _json_save(f, delete_filter(records, document_name), wr)
\* the exception the body of delete_document ends with
delete_document_exception(postgres, f, rd, db) ==
    IF postgres THEN db_exception(db) ELSE not_a_list_exception(_json_load(f, rd))
\* lines 290-300: DELETE ... WHERE document_name = %s, then commit
delete_document_postgres(t, document_name, db) ==
    IF db.kind = "ok"
    THEN SelectSeq(t, LAMBDA row : row.document_name # document_name)
    ELSE t
\* lines 309-312: True unless an exception reached the handler
delete_document_return(exc) == exc = NoException

(***************************************************************************)
(* get_document_stats                                                      *)
(***************************************************************************)
DocNamesOf(records) == {Get(records[i], "document_name", PyNone) : i \in 1..Len(records)}
\* documents counted without the set(): one per record
get_document_stats_of_each_record(records) ==
    [total_chunks |-> Len(records), total_documents |-> Len(records)]
get_document_stats_of(records) ==
    [total_chunks |-> Len(records), total_documents |-> Cardinality(DocNamesOf(records))]
\* lines 254-284
get_document_stats(postgres, f, t, rd, db) ==
    IF postgres
    THEN IF db.kind = "ok"
         THEN get_document_stats_of(t)          \* COUNT(*), COUNT(DISTINCT document_name)
         ELSE [total_chunks |-> 0, total_documents |-> 0]
    ELSE IF _json_load(f, rd) = NotAList
         THEN [total_chunks |-> 0, total_documents |-> 0]     \* rec.get raises
         ELSE get_document_stats_of(_json_load(f, rd))
\* the exception the bodies of get_document_stats and of list_documents end
\* with
read_exception(postgres, f, rd, db) ==
    IF postgres THEN db_exception(db) ELSE not_a_list_exception(_json_load(f, rd))

(***************************************************************************)
(* list_documents                                                          *)
(***************************************************************************)
\* rec.get("metadata", {}).get("timestamp")
RecTimestamp(rec) == Get(Get(rec, "metadata", EmptyDict), "timestamp", PyNone)
\* the key of the sort: x["last_updated"] or ""; the empty string is below
\* every timestamp
TimestampKey(v) == IF v = PyNone THEN -1 ELSE v.ts
\* lines 345-355: the dict doc_info, in the order its keys were inserted;
\* last_updated is read when the name is first met
RECURSIVE doc_info(_, _)
doc_info(records, seen) ==
    IF records = <<>> THEN <<>>
    ELSE LET rec == Head(records)
             name == Get(rec, "document_name", PyNone)
         IN  IF name \in seen
             THEN doc_info(Tail(records), seen)
             ELSE <<[name |-> name, last_updated |-> RecTimestamp(rec)]>>
                  \o doc_info(Tail(records), seen \cup {name})
\* "chunks" set when the name is first met and not counted up after that
ChunksOf_first_record(records, name) == 1
ChunksOf(records, name) ==
    Cardinality({i \in 1..Len(records) : Get(records[i], "document_name", PyNone) = name})
\* lines 344-361
list_documents_json(records) ==
    LET info == doc_info(records, {})
        entries == [i \in 1..Len(info) |->
                      [name |-> info[i].name,
                       chunks |-> ChunksOf(records, info[i].name),
                       last_updated |-> info[i].last_updated]]
    IN  StableSortDesc(entries,
            [i \in 1..Len(entries) |-> [j \in 1..Len(entries) |->
                TimestampKey(entries[i].last_updated) > TimestampKey(entries[j].last_updated)]])
\* MAX(metadata->>'timestamp') of a group: NULL (None) when no row has one
MaxTimestamp(rows, name) ==
    LET ts == {RecTimestamp(rows[i]) : i \in
                 {j \in 1..Len(rows) : rows[j].document_name = name}} \ {PyNone}
    IN  IF ts = {} THEN PyNone
        ELSE CHOOSE v \in ts : \A w \in ts : v.ts >= w.ts
\* lines 321-329: GROUP BY document_name ORDER BY last_updated DESC.  A
\* descending ORDER BY of PostgreSQL puts NULL first; groups with equal
\* keys come in any order.  The set of the sequences it may return.
PgDescKey(v) == IF v = PyNone THEN LastTick + 1 ELSE v.ts
list_documents_postgres(rows) ==
    LET names == DocNamesOf(rows)
        groups == {[name |-> n, chunks |-> ChunksOf(rows, n),
                    last_updated |-> MaxTimestamp(rows, n)] : n \in names}
    IN  {r \in [1..Cardinality(groups) -> groups] :
            /\ \A i, j \in 1..Cardinality(groups) : r[i] = r[j] => i = j
            /\ \A i, j \in 1..Cardinality(groups) :
                 i < j => PgDescKey(r[i].last_updated) >= PgDescKey(r[j].last_updated)}

(***************************************************************************)
(* search_similar                                                          *)
(***************************************************************************)
\* the filter of _search_json, line 190:
\*   all(metadata.get(k) == v for k, v in filters.items())
json_filter_match(rec, filters) ==
    LET metadata == Get(rec, "metadata", EmptyDict)
    IN  \A k \in DOMAIN filters : Get(metadata, k, PyNone) = filters[k]
\* str(value), the parameter line 145 sends
DecStr(n) == CASE n = 0 -> "0" [] n = 1 -> "1" [] n = 2 -> "2" [] n = 3 -> "3"
               [] n = 4 -> "4" [] n = 5 -> "5" [] n = 6 -> "6" [] n = 7 -> "7"
               [] n = 8 -> "8" [] OTHER -> "9"
PyStr(v) ==
    CASE v.ty = "int" -> [txt |-> DecStr(v.v)]
      [] v.ty = "none" -> [txt |-> "None"]
      [] "ts" \in DOMAIN v -> [iso |-> v.ts]
      [] OTHER -> [txt |-> v.v]
\* metadata->>key of a row: the value as text, NULL (no match) when the
\* column is NULL, the key is missing or the value is null
pg_filter_match(row, filters) ==
    \A k \in DOMAIN filters :
        /\ "metadata" \in DOMAIN row
        /\ k \in DOMAIN row.metadata
        /\ row.metadata[k] # PyNone
        /\ PyStr(row.metadata[k]) = PyStr(filters[k])
\* `if filters:` is false for None and for {}
FiltersGiven(filters) == filters # PyNone /\ DOMAIN filters # {}
\* overlap of _rerank_results, line 242
rerank_overlap(query, text) ==
    LET query_words == WordSet(query)
        text_words == WordSet(text)
    IN  IF query_words # {}
        THEN Rat(Cardinality(query_words \cap text_words), Cardinality(query_words))
        ELSE RInt(0)
\* the two weights exchanged: score * 0.3 + overlap * 0.7
rerank_score_exchanged(score, overlap) ==
    [a |-> RAdd(RMul(Rat(3, 10), score.a), RMul(RInt(7), overlap)),
     b |-> RMul(Rat(3, 10), score.b),
     r |-> score.r]
\* line 245: score * 0.7 + overlap * 0.3
rerank_score(score, overlap) ==
    [a |-> RAdd(RMul(Rat(7, 10), score.a), RMul(RInt(3), overlap)),
     b |-> RMul(Rat(7, 10), score.b),
     r |-> score.r]
\* _rerank_results, lines 235-250
_rerank_results(query, results, limit) ==
    LET rescored == [i \in 1..Len(results) |->
            [results[i] EXCEPT !.score =
                rerank_score(results[i].score, rerank_overlap(query, results[i].chunk_text))]]
    IN  StableSortDesc(rescored, ByScore(rescored))
\* lines 185-192: the candidates of the flat-file search
json_candidates(records, filters) ==
    IF FiltersGiven(filters)
    THEN SelectSeq(records, LAMBDA rec : json_filter_match(rec, filters))
    ELSE records
\* the scored candidates sorted with reverse=True left out: ascending
json_ranked_ascending(candidates, query_emb) ==
    LET results == [i \in 1..Len(candidates) |->
            [chunk_text |-> Get(candidates[i], "chunk_text", <<>>),
             score |-> _cosine_similarity(query_emb,
                          Get(candidates[i], "embedding", ZeroVector)),
             metadata |-> Get(candidates[i], "metadata", EmptyDict)]]
    IN  StableSortDesc(results,
            [i \in 1..Len(results) |-> [j \in 1..Len(results) |->
                ScoreGt(results[j].score, results[i].score)]])
\* lines 200-215: the cosine score of every candidate, sorted
json_ranked(candidates, query_emb) ==
    LET results == [i \in 1..Len(candidates) |->
            [chunk_text |-> Get(candidates[i], "chunk_text", <<>>),
             score |-> _cosine_similarity(query_emb,
                          Get(candidates[i], "embedding", ZeroVector)),
             metadata |-> Get(candidates[i], "metadata", EmptyDict)]]
    IN  StableSortDesc(results, ByScore(results))
\* _search_json, lines 181-223; response is the provider's answer to the
\* query, asked for only when a candidate is left
_search_json(f, query, limit, filters, rerank, response, rd) ==
    LET records == _json_load(f, rd)
        candidates == json_candidates(records, filters)
        results == json_ranked(candidates, _embed_text(response))
        top_results == Slice(results, IF rerank THEN limit * 2 ELSE limit)
    IN  IF records = <<>> THEN <<>>
        ELSE IF candidates = <<>> THEN <<>>
        ELSE IF rerank
             THEN Slice(_rerank_results(query, top_results, limit), limit)
             ELSE Slice(top_results, limit)
\* the rows of the SELECT of lines 135-150, with their distance score, in
\* the orders ORDER BY distance may give, cut by LIMIT
pg_select(t, query_emb, limit, filters, rerank) ==
    LET rows == IF FiltersGiven(filters)
                THEN SelectSeq(t, LAMBDA row : pg_filter_match(row, filters))
                ELSE t
        scored == [i \in 1..Len(rows) |->
                     [chunk_text |-> rows[i].chunk_text,
                      score |-> DistanceScore(rows[i].embedding, _to_pgvector(query_emb)),
                      metadata |-> Get(rows[i], "metadata", PyNone)]]
    IN  {Slice(o, IF rerank THEN limit * 2 ELSE limit) :
            o \in OrderBy(scored, ByScore(scored))}
\* lines 159-166: row[2] is the metadata column as the driver hands it over,
\* an object already parsed from the JSON-typed column (None for NULL), and
\* json.loads of a non-empty dict raises TypeError
pg_row_raises(row) == row.metadata # PyNone /\ row.metadata # EmptyDict
pg_results_dict(fetched) ==
    [i \in 1..Len(fetched) |-> [fetched[i] EXCEPT !.metadata = EmptyDict]]
\* _search_postgres, lines 129-171: the set of its outcomes, each an
\* exception or a value
Raised == [exc |-> TRUE]
Returned(v) == [exc |-> FALSE, val |-> v]
_search_postgres(t, query, limit, filters, rerank, response, db) ==
    IF db.kind # "ok" THEN {Raised}
    ELSE IF (IF rerank THEN limit * 2 ELSE limit) < 0 THEN {Raised}  \* LIMIT must not be negative
    ELSE {IF \E i \in 1..Len(fetched) : pg_row_raises(fetched[i])
          THEN Raised
          ELSE LET results_dict == pg_results_dict(fetched)
               IN  Returned(Slice(IF rerank
                                  THEN _rerank_results(query, results_dict, limit)
                                  ELSE results_dict, limit)) :
          fetched \in pg_select(t, _embed_text(response), limit, filters, rerank)}
\* the outcomes of the body of search_similar, lines 113-116; on the flat
\* file rec.get raises when the file did not hold a list
search_outcomes(postgres, f, t, query, limit, filters, rerank, response, rd, db) ==
    IF postgres
    THEN _search_postgres(t, query, limit, filters, rerank, response, db)
    ELSE {IF _json_load(f, rd) = NotAList
          THEN Raised
          ELSE Returned(_search_json(f, query, limit, filters, rerank, response, rd))}
\* the class of the exception of an outcome
search_exception(o, postgres, limit, rerank, db) ==
    IF ~o.exc THEN NoException
    ELSE IF ~postgres THEN "AttributeError"
    ELSE IF db.kind # "ok" THEN db_exception(db)
    ELSE IF (IF rerank THEN limit * 2 ELSE limit) < 0 THEN "psycopg2.Error"
    ELSE "TypeError"
\* search_similar, lines 112-119: the set of the values it may return
search_similar(postgres, f, t, query, limit, filters, rerank, response, rd, db) ==
    {IF o.exc THEN <<>> ELSE o.val :
        o \in search_outcomes(postgres, f, t, query, limit, filters, rerank,
                              response, rd, db)}
\* the connection a relational search leaves behind: lines 155-156 close it
\* before the rows are converted
SearchConnAfter(limit, rerank, db) ==
    IF db.kind = "ok" /\ (IF rerank THEN limit * 2 ELSE limit) < 0 THEN "open"
    ELSE ConnAfter(db)

(***************************************************************************)
(* The state machine.  One action per public operation; its parameters     *)
(* are the caller's arguments and what the environment does during the     *)
(* call (the provider's answers, the clock, the file system, the database).*)
(***************************************************************************)
OkDb == [kind |-> "ok"]
Unreachable == [kind |-> "unreachable"]
StmtError == [kind |-> "stmt_error"]
OkEnv == [rd |-> "ok", wr |-> "ok", db |-> OkDb]
\* the environments of a call: the file system acts on the flat-file
\* backend, the database on the relational one; at most one of the read and
\* the write of a call fails, and a read fails only of a file that is there
Envs(rds, wrs, dbs) ==
    IF use_postgres
    THEN {[rd |-> "ok", wr |-> "ok", db |-> d] : d \in dbs}
    ELSE {e \in {[rd |-> r, wr |-> w, db |-> OkDb] : r \in rds, w \in wrs} :
            /\ e.rd = "ok" \/ e.wr = "ok"
            /\ e.rd = "ok" \/ file.kind # "absent"}
Store == [file |-> file, table |-> table]
StoreLen == IF use_postgres THEN Len(table) ELSE Len(FileRecords(file))
\* all sequences over S of length lo..hi
SeqsOf(S, lo, hi) == UNION {[1..n -> S] : n \in lo..hi}

\* no call is in progress and the caller holds no result
Idle == [op |-> "idle"]

Init ==
    /\ use_postgres \in BOOLEAN
    /\ file = AbsentFile
    /\ table = <<>>
    /\ now = 0
    /\ conn = "none"
    /\ pre = [file |-> AbsentFile, table |-> <<>>]
    /\ call = Idle

StoreDocument(chunks, document_name, metadata, responses, tick, env) ==
    LET md == store_document_metadata(metadata, document_name, chunks, now)
    IN  /\ call = Idle
        /\ StoreLen + Len(chunks) <= MaxRecords
        /\ now + tick \in Clock
        /\ now' = now + tick
        /\ IF use_postgres
           THEN /\ table' = store_document_postgres(table, chunks, document_name, md,
                                                    responses, env.db)
                /\ conn' = ConnAfter(env.db)
                /\ UNCHANGED file
           ELSE /\ file' = store_document_json(file, chunks, document_name, md,
                                               responses, env.rd, env.wr)
                /\ conn' = "none"
                /\ UNCHANGED table
        /\ pre' = Store
        /\ call' = [op |-> "store_document", chunks |-> chunks,
                    document_name |-> document_name, metadata |-> metadata,
                    responses |-> responses, timestamp |-> now, env |-> env,
                    ret |-> PyNone,
                    raised |-> propagates(store_document_exception(
                                  use_postgres, file, chunks, env.rd, env.db))]
        /\ UNCHANGED use_postgres

LegacyStoreDocument(chunks, document_name, responses, env) ==
    /\ call = Idle
    /\ StoreLen + Len(chunks) <= MaxRecords
    /\ IF use_postgres
       THEN /\ table' = legacy_store_postgres(table, chunks, document_name, responses, env.db)
            /\ conn' = ConnAfter(env.db)
            /\ UNCHANGED file
       ELSE /\ file' = legacy_store_json(file, chunks, document_name, responses,
                                         env.rd, env.wr)
            /\ conn' = "none"
            /\ UNCHANGED table
    /\ pre' = Store
    /\ call' = [op |-> "legacy_store_document", chunks |-> chunks,
                document_name |-> document_name, responses |-> responses, env |-> env,
                ret |-> PyNone,
                raised |-> propagates(store_document_exception(
                              use_postgres, file, chunks, env.rd, env.db))]
    /\ UNCHANGED <<use_postgres, now>>

DeleteDocument(document_name, env) ==
    /\ call = Idle
    /\ IF use_postgres
       THEN /\ table' = delete_document_postgres(table, document_name, env.db)
            /\ conn' = ConnAfter(env.db)
            /\ UNCHANGED file
       ELSE /\ file' = delete_document_json(file, document_name, env.rd, env.wr)
            /\ conn' = "none"
            /\ UNCHANGED table
    /\ pre' = Store
    /\ call' = [op |-> "delete_document", document_name |-> document_name, env |-> env,
                ret |-> delete_document_return(
                           delete_document_exception(use_postgres, file, env.rd, env.db)),
                raised |-> propagates(
                              delete_document_exception(use_postgres, file, env.rd, env.db))]
    /\ UNCHANGED <<use_postgres, now>>

GetDocumentStats(env) ==
    /\ call = Idle
    /\ conn' = IF use_postgres THEN ConnAfter(env.db) ELSE "none"
    /\ pre' = Store
    /\ call' = [op |-> "get_document_stats", env |-> env,
                ret |-> get_document_stats(use_postgres, file, table, env.rd, env.db),
                raised |-> propagates(read_exception(use_postgres, file, env.rd, env.db))]
    /\ UNCHANGED <<use_postgres, file, table, now>>

\* list_documents, lines 316-364
ListDocuments(env) ==
    /\ call = Idle
    /\ conn' = IF use_postgres THEN ConnAfter(env.db) ELSE "none"
    /\ pre' = Store
    /\ \E ret \in (IF use_postgres
                   THEN IF env.db.kind = "ok" THEN list_documents_postgres(table)
                        ELSE {<<>>}
                   ELSE IF _json_load(file, env.rd) = NotAList
                        THEN {<<>>}                 \* rec.get raises: return []
                        ELSE {list_documents_json(_json_load(file, env.rd))}) :
          call' = [op |-> "list_documents", env |-> env, ret |-> ret,
                   raised |-> propagates(read_exception(use_postgres, file, env.rd, env.db))]
    /\ UNCHANGED <<use_postgres, file, table, now>>

SearchSimilar(query, limit, filters, rerank, response, env) ==
    /\ call = Idle
    /\ conn' = IF use_postgres THEN SearchConnAfter(limit, rerank, env.db) ELSE "none"
    /\ pre' = Store
    /\ \E o \in search_outcomes(use_postgres, file, table, query, limit, filters,
                               rerank, response, env.rd, env.db) :
          call' = [op |-> "search_similar", query |-> query, limit |-> limit,
                   filters |-> filters, rerank |-> rerank, response |-> response,
                   env |-> env,
                   ret |-> IF o.exc THEN <<>> ELSE o.val,   \* lines 117-119
                   raised |-> propagates(search_exception(o, use_postgres, limit,
                                                          rerank, env.db))]
    /\ UNCHANGED <<use_postgres, file, table, now>>

\* The caller is single-threaded and synchronous: it takes the result of a
\* call before it makes the next one.  The history of the finished call
\* (pre, conn, call) is dropped with it.
Return ==
    /\ call # Idle
    /\ call' = Idle
    /\ pre' = Store
    /\ conn' = "none"
    /\ UNCHANGED <<use_postgres, file, table, now>>

(***************************************************************************)
(* Spec: the life of the store.  Documents are stored (by both writers),   *)
(* deleted, listed and counted, while the clock advances and the file      *)
(* system or the database may fail.                                        *)
(***************************************************************************)
DocNames == {"a.txt", "b.txt"}
CallerMetadata ==
    ("file_type" :> StrVal("pdf")) @@ ("document_name" :> StrVal("b.txt"))
    @@ ("chunk_index" :> IntVal(7))
GoodResponse == ProviderVector(<<1, 0>>)
Reads == {"ok", "ioerror"}
Writes == {"ok", "unwritable", "partial"}
DbOutcomes == {OkDb, Unreachable, StmtError}

DoStore ==
    \E chunks \in SeqsOf({<<"alpha">>}, 0, 2), document_name \in DocNames,
       metadata \in {PyNone, CallerMetadata}, tick \in {0, 1},
       env \in Envs(Reads, Writes, DbOutcomes) :
        StoreDocument(chunks, document_name, metadata,
                      [i \in 1..Len(chunks) |-> GoodResponse], tick, env)
DoLegacyStore ==
    \E document_name \in DocNames :
        LegacyStoreDocument(<<<<"alpha">>>>, document_name, <<GoodResponse>>, OkEnv)
DoDelete ==
    \E document_name \in DocNames, env \in Envs(Reads, Writes, DbOutcomes) :
        DeleteDocument(document_name, env)
DoStats == \E env \in Envs(Reads, {"ok"}, DbOutcomes) : GetDocumentStats(env)
DoList == \E env \in Envs(Reads, {"ok"}, DbOutcomes) : ListDocuments(env)

Next == DoStore \/ DoLegacyStore \/ DoDelete \/ DoStats \/ DoList \/ Return
Spec == Init /\ [][Next]_vars

(***************************************************************************)
(* SpecEmbed: what the provider answers.  Chunks of any text are stored by *)
(* both writers while the provider raises, answers without an embedding,   *)
(* or answers a vector that is shorter than, as long as, or longer than    *)
(* embed_dim.                                                              *)
(***************************************************************************)
ProviderAnswers ==
    {ProviderRaises, ProviderNoEmbedding, ProviderVector(<<1>>),
     ProviderVector(<<0, 1>>), ProviderVector(<<1, 1, 1>>)}
EmbedTexts == {<<>>, <<"alpha">>}

EmbedStore ==
    \E chunks \in SeqsOf(EmbedTexts, 0, 2) :
      \E responses \in [1..Len(chunks) -> ProviderAnswers] :
        StoreDocument(chunks, "a.txt", PyNone, responses, 0, OkEnv)
EmbedLegacyStore ==
    \E chunks \in SeqsOf(EmbedTexts, 1, 1) :
      \E responses \in [1..Len(chunks) -> ProviderAnswers] :
        LegacyStoreDocument(chunks, "b.txt", responses, OkEnv)
EmbedDelete == \E document_name \in DocNames : DeleteDocument(document_name, OkEnv)
EmbedStats == GetDocumentStats(OkEnv)

NextEmbed == EmbedStore \/ EmbedLegacyStore \/ EmbedDelete \/ EmbedStats \/ Return
SpecEmbed == Init /\ [][NextEmbed]_vars

(***************************************************************************)
(* SpecSearch: searching.  Chunks with different words and embeddings are  *)
(* stored by both writers and deleted, and every search is made: each      *)
(* query with each provider answer, limit, filter and rerank setting.      *)
(***************************************************************************)
SearchTexts == {<<"alpha">>, <<"Beta">>, <<"alpha", "beta">>}
\* what the provider answers for a chunk that is stored
ChunkAnswer(text) ==
    CASE text = <<"alpha">> -> ProviderVector(<<1, 0>>)
      [] text = <<"Beta">> -> ProviderVector(<<0, 1>>)
      [] OTHER -> ProviderVector(<<1, 1>>)
\* a query and what the provider answers for it
Queries ==
    {[query |-> <<"alpha">>, response |-> ProviderRaises],
     [query |-> <<"Beta">>, response |-> ProviderVector(<<1, 0>>)],
     [query |-> <<"Beta", "alpha">>, response |-> ProviderVector(<<1, 1>>)],
     [query |-> <<>>, response |-> ProviderVector(<<1, 1>>)]}
Limits == {0, 1, 2}
FilterAnd == ("document_name" :> StrVal("a.txt")) @@ ("chunk_index" :> IntVal(0))
FilterStr == "chunk_index" :> StrVal("0")
FilterNone == "file_type" :> PyNone
Filters == {PyNone, FilterAnd, FilterStr, FilterNone}

SearchStore ==
    \E chunks \in SeqsOf(SearchTexts, 1, 2), document_name \in DocNames :
        StoreDocument(chunks, document_name, PyNone,
                      [i \in 1..Len(chunks) |-> ChunkAnswer(chunks[i])], 0, OkEnv)
SearchLegacyStore ==
    LegacyStoreDocument(<<<<"alpha">>>>, "b.txt", <<ChunkAnswer(<<"alpha">>)>>, OkEnv)
SearchDelete == \E document_name \in DocNames : DeleteDocument(document_name, OkEnv)
DoSearch ==
    \E q \in Queries, limit \in Limits, filters \in Filters, rerank \in BOOLEAN :
        SearchSimilar(q.query, limit, filters, rerank, q.response, OkEnv)

NextSearch == SearchStore \/ SearchLegacyStore \/ SearchDelete \/ DoSearch \/ Return
SpecSearch == Init /\ [][NextSearch]_vars

(***************************************************************************)
(* The claims.                                                             *)
(***************************************************************************)
\* the records (rows) the backend in use holds now, and held before the call
Records == IF use_postgres THEN table ELSE FileRecords(file)
PreRecords == IF use_postgres THEN pre.table ELSE FileRecords(pre.file)
NamesIn(records) == {records[i].document_name : i \in 1..Len(records)}
CallFailed == call.env.rd # "ok" \/ call.env.wr # "ok" \/ call.env.db.kind # "ok"

\* C2: delete completeness.  After delete_document(X) has returned True the
\* store holds no record of X, every record of every other document is
\* still there (in its place), and the number of distinct documents is one
\* less than before when X had a record, and the same when it had none.
C2_DeleteCompleteness ==
    (call.op = "delete_document" /\ call.ret = TRUE) =>
        LET X == call.document_name
        IN  /\ \A i \in 1..Len(Records) : Records[i].document_name # X
            /\ Records = SelectSeq(PreRecords, LAMBDA rec : rec.document_name # X)
            /\ Cardinality(NamesIn(Records)) =
                 Cardinality(NamesIn(PreRecords)) - (IF X \in NamesIn(PreRecords) THEN 1 ELSE 0)

\* C3: delete_document returns True when the storage layer worked (also when
\* no record matched) and False when it failed, and never returns True while
\* a record of the document is still stored.
C3_DeleteReportsFailure ==
    call.op = "delete_document" =>
        /\ (~CallFailed => call.ret = TRUE)
        /\ (CallFailed => call.ret = FALSE)
        /\ (call.ret = TRUE =>
              \A i \in 1..Len(Records) : Records[i].document_name # call.document_name)

\* C4: the dimension invariant.  Every stored embedding has exactly
\* embed_dim components, and the embedding stored for a chunk is the
\* provider's vector cut to embed_dim components or filled up with zeros on
\* the right, and all zeros when the provider failed.
NormalizedAnswer(response) ==
    [j \in 1..embed_dim |->
        IF response.kind = "vec" /\ j <= Len(response.vec) THEN response.vec[j] ELSE 0]
C4_DimensionInvariant ==
    /\ \A i \in 1..Len(Records) : Len(Records[i].embedding) = embed_dim
    /\ call.op \in {"store_document", "legacy_store_document"} =>
         \A i \in 1..Len(call.chunks) :
            Records[Len(Records) - Len(call.chunks) + i].embedding
                = NormalizedAnswer(call.responses[i])
\* a call has stored a chunk whose vector was too long next to one whose
\* vector was too short, beside an older record
C4_Witness ==
    /\ call.op = "store_document"
    /\ Len(call.chunks) = 2
    /\ call.responses[1].kind = "vec" /\ Len(call.responses[1].vec) > embed_dim
    /\ call.responses[2].kind = "vec" /\ Len(call.responses[2].vec) < embed_dim
    /\ Len(Records) = 3
    /\ Len(Records[2].embedding) = embed_dim /\ Len(Records[3].embedding) = embed_dim

(***************************************************************************)
(* Claims about search_similar.  They are read in the state in which the   *)
(* call has returned: the store is the one that was searched.              *)
(***************************************************************************)
Searched == call.op = "search_similar"
\* what a result shows of a record
ShownMetadata(rec) == IF "metadata" \in DOMAIN rec THEN rec.metadata ELSE EmptyDict
Shows(result, rec) ==
    result.chunk_text = rec.chunk_text /\ result.metadata = ShownMetadata(rec)
\* the record has every key of the filter F with an equal value
Satisfies(rec, F) ==
    F = PyNone \/ \A k \in DOMAIN F :
                     /\ "metadata" \in DOMAIN rec
                     /\ k \in DOMAIN rec.metadata
                     /\ rec.metadata[k] = F[k]
\* the records that match the filters of the call
Matching == SelectSeq(Records, LAMBDA rec : Satisfies(rec, call.filters))
\* the candidates of the call, in scan order: the records the backend's
\* filter lets through
Candidates ==
    IF use_postgres
    THEN IF FiltersGiven(call.filters)
         THEN SelectSeq(Records, LAMBDA row : pg_filter_match(row, call.filters))
         ELSE Records
    ELSE json_candidates(Records, call.filters)
\* the query's embedding and a candidate's similarity to it: the cosine on
\* the flat file, 1 - distance in the table
QueryEmb == NormalizedAnswer(call.response)
Similarity(rec) ==
    IF use_postgres THEN DistanceScore(rec.embedding, QueryEmb)
    ELSE _cosine_similarity(QueryEmb, rec.embedding)
\* candidate i stands before candidate j in the ranking by similarity, ties
\* in scan order
Before(i, j) ==
    \/ ScoreGt(Similarity(Candidates[i]), Similarity(Candidates[j]))
    \/ ScoreEq(Similarity(Candidates[i]), Similarity(Candidates[j])) /\ i < j
RankOf(i) == Cardinality({j \in 1..Len(Candidates) : Before(j, i)}) + 1
\* the share of the query's lower-cased words that occur in the text
Overlap(query, text) ==
    LET Q == {Lower(query[i]) : i \in 1..Len(query)}
        hit == {w \in Q : \E i \in 1..Len(text) : Lower(text[i]) = w}
    IN  IF Q = {} THEN RInt(0) ELSE Rat(Cardinality(hit), Cardinality(Q))
\* 0.7 * similarity + 0.3 * overlap, as a score
Blend(sim, overlap) ==
    [a |-> RAdd(RMul(Rat(7, 10), sim.a), RMul(RInt(3), overlap)),
     b |-> RMul(Rat(7, 10), sim.b),
     r |-> sim.r]
Blended(i) ==
    Blend(Similarity(Candidates[i]), Overlap(call.query, Candidates[i].chunk_text))
ProviderFailed == call.response.kind \in {"raise", "none"}

C5_FilterCorrectness ==
    (Searched /\ call.filters # PyNone) =>
        /\ \A p \in 1..Len(call.ret) :
              \E i \in 1..Len(Matching) : Shows(call.ret[p], Matching[i])
        /\ call.limit >= Len(Matching) =>
              /\ Len(call.ret) = Len(Matching)
              /\ \A i \in 1..Len(Matching) :
                    \E p \in 1..Len(call.ret) : Shows(call.ret[p], Matching[i])

C7_RerankWindow ==
    (Searched /\ call.rerank) =>
        /\ Len(call.ret) <= call.limit
        /\ Len(call.ret) = Min(call.limit, Len(Candidates))
        /\ \A p \in 1..Len(call.ret) :
              \E i \in 1..Len(Candidates) :
                 /\ Shows(call.ret[p], Candidates[i])
                 /\ Cardinality({j \in 1..Len(Candidates) :
                        ScoreGt(Similarity(Candidates[j]), Similarity(Candidates[i]))})
                      < 2 * call.limit

\* C8: with rerank on, every result's score is 0.7 * similarity + 0.3 *
\* overlap, overlap being the share of the query's lower-cased words that
\* occur in the chunk (0 for a query without words); the results are sorted
\* by this score, highest first, equal scores in the order of the ranking by
\* similarity, and the first result's score is at least that of every
\* candidate that was reranked.
C8_BlendedScore ==
    (Searched /\ call.rerank) =>
        /\ \E idx \in [1..Len(call.ret) -> 1..Len(Candidates)] :
              /\ \A p, q \in 1..Len(call.ret) : p # q => idx[p] # idx[q]
              /\ \A p \in 1..Len(call.ret) :
                    /\ Shows(call.ret[p], Candidates[idx[p]])
                    /\ ScoreEq(call.ret[p].score, Blended(idx[p]))
              /\ ~use_postgres =>
                    \A p, q \in 1..Len(call.ret) :
                       (p < q /\ ScoreEq(call.ret[p].score, call.ret[q].score))
                          => Before(idx[p], idx[q])
        /\ \A p \in 1..(Len(call.ret) - 1) :
              ScoreGe(call.ret[p].score, call.ret[p + 1].score)
        /\ call.ret # <<>> =>
              \A i \in 1..Len(Candidates) :
                 (IF use_postgres
                  THEN Cardinality({j \in 1..Len(Candidates) : j # i /\
                          ScoreGe(Similarity(Candidates[j]), Similarity(Candidates[i]))})
                         < 2 * call.limit
                  ELSE RankOf(i) <= 2 * call.limit)
                    => ScoreGe(call.ret[1].score, Blended(i))
\* the keyword overlap has lifted a chunk of lower cosine over the chunk of
\* the highest cosine
C8_Witness ==
    /\ Searched /\ call.rerank /\ ~use_postgres /\ ~ProviderFailed
    /\ Len(call.ret) = 2
    /\ \E i, j \in 1..Len(Candidates) :
          /\ Shows(call.ret[1], Candidates[i]) /\ Shows(call.ret[2], Candidates[j])
          /\ ScoreGt(Similarity(Candidates[j]), Similarity(Candidates[i]))
          /\ ScoreGt(call.ret[1].score, call.ret[2].score)

(***************************************************************************)
(* Claims about list_documents.                                            *)
(***************************************************************************)
Listed == call.op = "list_documents" /\ ~CallFailed
\* the timestamps of the records of a document
TimestampsOf(name) ==
    {Records[i].metadata["timestamp"].ts :
        i \in {j \in 1..Len(Records) :
                 /\ Records[j].document_name = name
                 /\ "metadata" \in DOMAIN Records[j]
                 /\ "timestamp" \in DOMAIN Records[j].metadata}}

\* C9: list_documents has one entry for every distinct document_name; its
\* chunks is the number of records of that name and its last_updated is the
\* latest timestamp among them, also when the records of the name were
\* written by several store_document calls.
C9_ListDocumentsEntries ==
    Listed =>
        /\ Len(call.ret) = Cardinality(NamesIn(Records))
        /\ \A name \in NamesIn(Records) :
              \E p \in 1..Len(call.ret) :
                 /\ call.ret[p].name = name
                 /\ call.ret[p].chunks =
                      Cardinality({i \in 1..Len(Records) : Records[i].document_name = name})
                 /\ IF TimestampsOf(name) = {}
                    THEN call.ret[p].last_updated = PyNone
                    ELSE /\ call.ret[p].last_updated # PyNone
                         /\ call.ret[p].last_updated.ts \in TimestampsOf(name)
                         /\ \A t \in TimestampsOf(name) : call.ret[p].last_updated.ts >= t

\* C10: on both backends the entries of list_documents are sorted by
\* last_updated, latest first, and the entries without a timestamp come
\* after all the others.
C10_ListDocumentsOrder ==
    Listed =>
        \A p, q \in 1..Len(call.ret) :
           p < q =>
              /\ call.ret[p].last_updated = PyNone => call.ret[q].last_updated = PyNone
              /\ (call.ret[p].last_updated # PyNone /\ call.ret[q].last_updated # PyNone)
                   => call.ret[p].last_updated.ts >= call.ret[q].last_updated.ts

(***************************************************************************)
(* Claims about get_document_stats.                                        *)
(***************************************************************************)
\* C11: after any sequence of store_document and delete_document calls,
\* get_document_stats, when its own access to the storage works, returns
\* total_chunks = the number of stored records and total_documents = the
\* number of distinct document_name values among them.
C11_StatsCounts ==
    (call.op = "get_document_stats" /\ ~CallFailed) =>
        /\ call.ret.total_chunks = Len(Records)
        /\ call.ret.total_documents =
             Cardinality({name \in DocNames :
                            \E i \in 1..Len(Records) : Records[i].document_name = name})
\* three records of two documents are counted
C11_Witness ==
    /\ call.op = "get_document_stats" /\ ~CallFailed
    /\ Len(Records) = 3
    /\ call.ret = [total_chunks |-> 3, total_documents |-> 2]

(***************************************************************************)
(* SpecTwin: two facades, one on the flat file and one on the table, are   *)
(* given the same calls in the same order; the storage and the provider    *)
(* work.  A read is made on both and the two results are kept: ret is the  *)
(* flat-file result, ret_pg the relational one.                            *)
(***************************************************************************)
TwinStoreDocument(chunks, document_name, metadata, responses, tick) ==
    LET md == store_document_metadata(metadata, document_name, chunks, now)
    IN  /\ call = Idle
        /\ Len(FileRecords(file)) + Len(chunks) <= MaxRecords
        /\ now + tick \in Clock
        /\ now' = now + tick
        /\ file' = store_document_json(file, chunks, document_name, md, responses,
                                       "ok", "ok")
        /\ table' = store_document_postgres(table, chunks, document_name, md, responses,
                                            OkDb)
        /\ conn' = ConnAfter(OkDb)
        /\ pre' = Store
        /\ call' = [op |-> "store_document", chunks |-> chunks,
                    document_name |-> document_name, metadata |-> metadata,
                    responses |-> responses, timestamp |-> now, env |-> OkEnv,
                    ret |-> PyNone, ret_pg |-> PyNone, raised |-> FALSE]
        /\ UNCHANGED use_postgres
TwinLegacyStoreDocument(chunks, document_name, responses) ==
    /\ call = Idle
    /\ Len(FileRecords(file)) + Len(chunks) <= MaxRecords
    /\ file' = legacy_store_json(file, chunks, document_name, responses, "ok", "ok")
    /\ table' = legacy_store_postgres(table, chunks, document_name, responses, OkDb)
    /\ conn' = ConnAfter(OkDb)
    /\ pre' = Store
    /\ call' = [op |-> "legacy_store_document", chunks |-> chunks,
                document_name |-> document_name, responses |-> responses, env |-> OkEnv,
                ret |-> PyNone, ret_pg |-> PyNone, raised |-> FALSE]
    /\ UNCHANGED <<use_postgres, now>>
TwinDeleteDocument(document_name) ==
    /\ call = Idle
    /\ file' = delete_document_json(file, document_name, "ok", "ok")
    /\ table' = delete_document_postgres(table, document_name, OkDb)
    /\ conn' = ConnAfter(OkDb)
    /\ pre' = Store
    /\ call' = [op |-> "delete_document", document_name |-> document_name, env |-> OkEnv,
                ret |-> delete_document_return(
                           delete_document_exception(FALSE, file, "ok", OkDb)),
                ret_pg |-> delete_document_return(
                              delete_document_exception(TRUE, file, "ok", OkDb)),
                raised |-> FALSE]
    /\ UNCHANGED <<use_postgres, now>>
TwinGetDocumentStats ==
    /\ call = Idle
    /\ conn' = ConnAfter(OkDb)
    /\ pre' = Store
    /\ call' = [op |-> "get_document_stats", env |-> OkEnv,
                ret |-> get_document_stats(FALSE, file, table, "ok", OkDb),
                ret_pg |-> get_document_stats(TRUE, file, table, "ok", OkDb),
                raised |-> FALSE]
    /\ UNCHANGED <<use_postgres, file, table, now>>
TwinListDocuments ==
    /\ call = Idle
    /\ conn' = ConnAfter(OkDb)
    /\ pre' = Store
    /\ \E ret_pg \in list_documents_postgres(table) :
          call' = [op |-> "list_documents", env |-> OkEnv,
                   ret |-> list_documents_json(_json_load(file, "ok")),
                   ret_pg |-> ret_pg, raised |-> FALSE]
    /\ UNCHANGED <<use_postgres, file, table, now>>
TwinSearchSimilar(query, limit, filters, rerank, response) ==
    /\ call = Idle
    /\ conn' = ConnAfter(OkDb)
    /\ pre' = Store
    /\ \E ret_pg \in search_similar(TRUE, file, table, query, limit, filters, rerank,
                                    response, "ok", OkDb) :
          call' = [op |-> "search_similar", query |-> query, limit |-> limit,
                   filters |-> filters, rerank |-> rerank, response |-> response,
                   env |-> OkEnv,
                   ret |-> _search_json(file, query, limit, filters, rerank, response, "ok"),
                   ret_pg |-> ret_pg, raised |-> FALSE]
    /\ UNCHANGED <<use_postgres, file, table, now>>

TwinTexts == {<<"alpha">>, <<"alpha", "beta">>}
TwinStore ==
    \E chunks \in SeqsOf(TwinTexts, 1, 2), document_name \in DocNames, tick \in {0, 1} :
        TwinStoreDocument(chunks, document_name, PyNone,
                          [i \in 1..Len(chunks) |-> ChunkAnswer(chunks[i])], tick)
TwinLegacyStore ==
    TwinLegacyStoreDocument(<<<<"alpha">>>>, "b.txt", <<ChunkAnswer(<<"alpha">>)>>)
TwinDelete == \E document_name \in DocNames : TwinDeleteDocument(document_name)
TwinSearch ==
    \E q \in Queries, limit \in {1, 2}, filters \in Filters, rerank \in BOOLEAN :
        TwinSearchSimilar(q.query, limit, filters, rerank, q.response)

InitTwin == Init /\ ~use_postgres
NextTwin ==
    \/ TwinStore \/ TwinLegacyStore \/ TwinDelete
    \/ TwinGetDocumentStats \/ TwinListDocuments \/ TwinSearch
    \/ Return
SpecTwin == InitTwin /\ [][NextTwin]_vars

(***************************************************************************)
(* Claims about the two backends, read in SpecTwin.                        *)
(***************************************************************************)
\* the positions of the records the filter of each backend lets through
JsonMatched(F) ==
    {i \in 1..Len(FileRecords(file)) : json_filter_match(FileRecords(file)[i], F)}
PgMatched(F) == {i \in 1..Len(table) : pg_filter_match(table[i], F)}
\* two scores differ by at most 1/1000
ScoreNear(x, y) ==
    /\ ScoreGe([x EXCEPT !.a = RAdd(@, Rat(1, 100))], y)
    /\ ScoreGe([y EXCEPT !.a = RAdd(@, Rat(1, 100))], x)

\* C12: the same sequence of store_document and delete_document calls on
\* the two backends leaves them answering alike: get_document_stats returns
\* the same counts, list_documents the same entries (name, chunks,
\* last_updated) in the same order - here: the flat-file list is one of the
\* lists the relational query may return - and a filter selects the same
\* records.
C12_BackendEquivalence ==
    /\ Len(table) = Len(FileRecords(file))
    /\ call.op = "get_document_stats" => call.ret = call.ret_pg
    /\ call.op = "list_documents" => call.ret \in list_documents_postgres(table)
    /\ (call.op = "search_similar" /\ FiltersGiven(call.filters))
          => JsonMatched(call.filters) = PgMatched(call.filters)

\* C13: for every store content, query embedding and limit, the relational
\* search (rows ordered by the distance operator, score = 1 - distance) can
\* return the chunk texts the flat-file cosine ranking returns, in the same
\* order, with scores that differ by no more than a tolerance.
C13_SearchParity ==
    (call.op = "search_similar" /\ ~FiltersGiven(call.filters) /\ ~call.rerank) =>
        \E r \in search_similar(TRUE, file, table, call.query, call.limit, call.filters,
                                call.rerank, call.response, "ok", OkDb) :
            /\ Len(r) = Len(call.ret)
            /\ \A p \in 1..Len(r) :
                  /\ r[p].chunk_text = call.ret[p].chunk_text
                  /\ ScoreNear(r[p].score, call.ret[p].score)

(***************************************************************************)
(* SpecFail: failures.  Documents are stored, deleted, listed, counted and *)
(* searched while the provider may fail for any chunk and for the query,   *)
(* the file system or the database may fail during any call, and the text  *)
(* of the flat file may be replaced behind the facade's back.              *)
(***************************************************************************)
\* Something other than the facade (an editor, another program, a copy
\* that broke off) leaves text at self._json_path that json.load does not
\* turn into a list of records.
DamageFile(f) ==
    /\ call = Idle
    /\ ~use_postgres
    /\ file # f
    /\ file' = f
    /\ pre' = [file |-> f, table |-> table]
    /\ UNCHANGED <<use_postgres, table, now, conn, call>>

FailStore ==
    \E chunks \in SeqsOf({<<"alpha">>}, 1, 2), document_name \in DocNames,
       env \in Envs(Reads, Writes, DbOutcomes) :
      \E responses \in [1..Len(chunks) -> {GoodResponse, ProviderRaises}] :
        StoreDocument(chunks, document_name, PyNone, responses, 0, env)
FailSearch ==
    \E q \in Queries, limit \in {1, 3}, rerank \in BOOLEAN,
       env \in Envs(Reads, {"ok"}, DbOutcomes) :
        SearchSimilar(q.query, limit, PyNone, rerank, q.response, env)
FailDamage == \E f \in {CorruptFile, ObjectFile} : DamageFile(f)

NextFail ==
    \/ FailStore \/ DoLegacyStore \/ DoDelete \/ DoStats \/ DoList \/ FailSearch
    \/ FailDamage \/ Return
SpecFail == Init /\ [][NextFail]_vars

(***************************************************************************)
(* Claims about failures, read in SpecFail.                                *)
(***************************************************************************)
\* the storage of the call in progress failed: the file could not be read
\* or the database did not carry out the statements
StorageFailed ==
    IF use_postgres THEN call.env.db.kind # "ok" ELSE call.env.rd # "ok"
ZeroCounts == [total_chunks |-> 0, total_documents |-> 0]
IsRead == call.op \in {"search_similar", "list_documents", "get_document_stats"}

C15_EmptyStoreSearch ==
    (Searched /\ Records = <<>>) => (call.ret = <<>> /\ ~call.raised)
\* a filtered, re-ranked search with a failing provider on a flat file that
\* a delete_document left holding the empty array
C15_Witness ==
    /\ Searched /\ Records = <<>>
    /\ ~use_postgres /\ file = ArrayFile(<<>>)
    /\ ProviderFailed /\ call.rerank /\ FiltersGiven(call.filters) /\ call.limit > 0
    /\ call.ret = <<>>

(***************************************************************************)
(* Claims about what store_document writes.                                *)
(***************************************************************************)
\* the records the store_document call in progress added: the last
\* len(chunks) records of the store
Added == SubSeq(Records, Len(Records) - Len(call.chunks) + 1, Len(Records))

\* C16: in store_document of N chunks an embedding failure on any subset
\* of the chunks does not abort the batch: the store grows by N records,
\* one per chunk in chunk order; the record of a chunk for which the
\* provider failed carries the all-zero embedding of length embed_dim, the
\* record of every other chunk its provider embedding (cut or filled up to
\* embed_dim).
C16_BatchNotAborted ==
    call.op = "store_document" =>
        /\ Len(Records) = Len(PreRecords) + Len(call.chunks)
        /\ \A i \in 1..Len(call.chunks) :
              /\ Added[i].chunk_text = call.chunks[i]
              /\ call.responses[i].kind # "vec" =>
                    (Len(Added[i].embedding) = embed_dim /\ IsZero(Added[i].embedding))
              /\ call.responses[i].kind = "vec" =>
                    Added[i].embedding = NormalizedAnswer(call.responses[i])
\* after an older record, a chunk whose embedding failed was stored before
\* a chunk whose embedding worked
C16_Witness ==
    /\ call.op = "store_document"
    /\ Len(PreRecords) = 1 /\ Len(call.chunks) = 2 /\ Len(Records) = 3
    /\ call.responses[1] = ProviderRaises
    /\ call.responses[2] = ProviderVector(<<0, 1>>)
    /\ Records[2].embedding = <<0, 0>>
    /\ Records[3].embedding = <<0, 1>>

\* the four keys store_document sets itself
OwnKeys == {"timestamp", "document_name", "chunk_index", "num_chunks"}
\* C17: store_document(chunks, name, metadata), when the storage works,
\* appends one record per chunk in chunk order; the i-th (0-based) has
\* metadata.chunk_index = i, metadata.num_chunks = len(chunks),
\* metadata.document_name = name and the timestamp taken once for the call,
\* and every key of the caller's metadata other than these four with the
\* caller's value.
C17_RecordMetadata ==
    (call.op = "store_document" /\ ~CallFailed) =>
        /\ Len(Records) = Len(PreRecords) + Len(call.chunks)
        /\ \A i \in 1..Len(call.chunks) :
              LET md == Added[i].metadata
              IN  /\ Added[i].chunk_text = call.chunks[i]
                  /\ Added[i].document_name = call.document_name
                  /\ md["chunk_index"] = IntVal(i - 1)
                  /\ md["num_chunks"] = IntVal(Len(call.chunks))
                  /\ md["document_name"] = StrVal(call.document_name)
                  /\ md["timestamp"] = TsVal(call.timestamp)
                  /\ call.metadata # PyNone =>
                        \A k \in DOMAIN call.metadata \ OwnKeys : md[k] = call.metadata[k]
\* two chunks of a.txt were stored after an older record with metadata in
\* which the caller had set file_type, and document_name and chunk_index to
\* other values
C17_Witness ==
    /\ call.op = "store_document" /\ ~CallFailed
    /\ call.document_name = "a.txt" /\ call.metadata = CallerMetadata
    /\ Len(PreRecords) = 1 /\ Len(call.chunks) = 2
    /\ Records[3].metadata["chunk_index"] = IntVal(1)
    /\ Records[3].metadata["document_name"] = StrVal("a.txt")
    /\ Records[3].metadata["file_type"] = StrVal("pdf")

(***************************************************************************)
(* Claims about what a call leaves alone.                                  *)
(***************************************************************************)
\* the records of the documents other than X, in their order
Others(records, X) == SelectSeq(records, LAMBDA rec : rec.document_name # X)
\* C18: a stored record is never changed and goes away only by
\* delete_document of its own document: after store_document every record
\* held before is still there, unchanged and in the same order, before the
\* new ones; after delete_document(X) the records of the other documents
\* are the same, in the same order; search_similar, list_documents and
\* get_document_stats leave the persisted store as it was.
C18_RecordLifecycle ==
    /\ call.op \in {"store_document", "legacy_store_document"} =>
          /\ Len(Records) >= Len(PreRecords)
          /\ SubSeq(Records, 1, Len(PreRecords)) = PreRecords
    /\ call.op = "delete_document" =>
          Others(Records, call.document_name) = Others(PreRecords, call.document_name)
    /\ IsRead => Store = pre

(***************************************************************************)
(* Claims about reads after writes.  The facade keeps nothing between      *)
(* calls but its configuration, so the calls of two facades on one store   *)
(* are the calls of one.                                                   *)
(***************************************************************************)
\* the result shows a record that is stored now
ShowsStored(result) == \E i \in 1..Len(Records) : Shows(result, Records[i])
\* C19: in every sequence of store_document, delete_document and reads,
\* each read whose storage works answers from the records stored at that
\* moment: get_document_stats counts them, list_documents names exactly
\* their documents with the number of their chunks, and search_similar
\* returns only records stored now (none of a deleted document); on the
\* flat file it returns min(limit, stored) of them, so every stored chunk
\* when the limit allows.
C19_ReadsReflectStore ==
    /\ (call.op = "get_document_stats" /\ ~CallFailed) =>
          call.ret = [total_chunks |-> Len(Records),
                      total_documents |-> Cardinality(NamesIn(Records))]
    /\ (call.op = "list_documents" /\ ~CallFailed) =>
          /\ {call.ret[p].name : p \in 1..Len(call.ret)} = NamesIn(Records)
          /\ \A p \in 1..Len(call.ret) :
                call.ret[p].chunks =
                    Cardinality({i \in 1..Len(Records) :
                                   Records[i].document_name = call.ret[p].name})
    /\ (call.op = "search_similar" /\ ~CallFailed) =>
          /\ \A p \in 1..Len(call.ret) : ShowsStored(call.ret[p])
          /\ ~use_postgres => Len(call.ret) = Min(call.limit, Len(Records))
          /\ (~use_postgres /\ call.limit >= Len(Records)) =>
                \A i \in 1..Len(Records) :
                   \E p \in 1..Len(call.ret) : Shows(call.ret[p], Records[i])
\* a search on the flat file returned the three stored records of two
\* documents
C19_Witness ==
    /\ call.op = "search_similar" /\ ~CallFailed /\ ~use_postgres
    /\ Len(Records) = 3 /\ Cardinality(NamesIn(Records)) = 2
    /\ call.limit = 3 /\ Len(call.ret) = 3
    /\ \A i \in 1..3 : \E p \in 1..3 : Shows(call.ret[p], Records[i])

(***************************************************************************)
(* Claims about a flat file that does not hold the array of records.       *)
(***************************************************************************)
\* the text of the file is not a JSON array of records: it does not parse,
\* or it parses to a JSON object
Malformed(f) == f.kind \in {"corrupt", "object"}
\* C20: malformed persisted data is treated as an empty store and is never
\* fatal: while the flat file is malformed search_similar returns [],
\* list_documents returns [] and get_document_stats returns zero counts,
\* none of them raising, and a store_document call whose file access works
\* returns normally and leaves the store holding exactly the records of
\* its chunks.
C20_MalformedFileIsEmpty ==
    /\ (~use_postgres /\ Malformed(file) /\ IsRead) =>
          /\ ~call.raised
          /\ call.op = "get_document_stats" => call.ret = ZeroCounts
          /\ call.op # "get_document_stats" => call.ret = <<>>
    /\ (~use_postgres /\ Malformed(pre.file) /\ call.op = "store_document" /\ ~CallFailed) =>
          /\ ~call.raised
          /\ Len(Records) = Len(call.chunks)
          /\ \A i \in 1..Len(Records) :
                /\ Records[i].chunk_text = call.chunks[i]
                /\ Records[i].document_name = call.document_name

(***************************************************************************)
(* SpecCosine: _cosine_similarity on its own.  It is applied to every pair *)
(* of vectors of embed_dim components from -1 to 2: zero vectors,          *)
(* orthogonal, identical, opposite and oblique ones.                       *)
(***************************************************************************)
CosineSimilarity(a, b) ==
    /\ call = Idle
    /\ call' = [op |-> "_cosine_similarity", a |-> a, b |-> b,
                ret |-> _cosine_similarity(a, b), raised |-> FALSE]
    /\ UNCHANGED <<use_postgres, file, table, now, conn, pre>>
NextCosine ==
    \/ \E a, b \in [1..embed_dim -> -1..2] : CosineSimilarity(a, b)
    \/ Return
SpecCosine == Init /\ [][NextCosine]_vars

\* the score 1
OneScore == [a |-> RInt(10), b |-> RInt(0), r |-> RInt(0)]
\* C21: the cosine similarity of two orthogonal vectors is 0, of two
\* identical nonzero vectors 1, and it is 0, with no error, when either
\* vector is all zeros - as is the embedding stored for a chunk the
\* provider failed for, which so scores 0 against every query.
C21_CosineValues ==
    call.op = "_cosine_similarity" =>
        /\ ~call.raised
        /\ (IsZero(call.a) \/ IsZero(call.b)) => ScoreEq(call.ret, ZeroScore)
        /\ Dot(call.a, call.b) = 0 => ScoreEq(call.ret, ZeroScore)
        /\ (call.a = call.b /\ ~IsZero(call.a)) => ScoreEq(call.ret, OneScore)
\* a query against the stored zero vector; two orthogonal nonzero vectors;
\* a nonzero vector against itself
C21_Witness ==
    /\ call.op = "_cosine_similarity"
    /\ \/ call.a = <<2, -1>> /\ call.b = _embed_text(ProviderRaises)
       \/ call.a = <<1, 2>> /\ call.b = <<2, -1>>
       \/ call.a = <<-1, 2>> /\ call.b = <<-1, 2>>
    /\ call.ret \in {ZeroScore, [a |-> RInt(0), b |-> RInt(10), r |-> RInt(1)]}

(***************************************************************************)
(* Claims about the document views.                                        *)
(***************************************************************************)
\* what get_document_stats returns on the store and in the environment of
\* the call in progress
StatsNow == get_document_stats(use_postgres, file, table, call.env.rd, call.env.db)
\* C22: the document views are derived from the chunk set: in every
\* reachable state list_documents returns as many entries as
\* get_document_stats counts documents, and the chunk counts of the entries
\* add up to the total_chunks of get_document_stats.
C22_ViewsAgree ==
    call.op = "list_documents" =>
        /\ Len(call.ret) = StatsNow.total_documents
        /\ SumTo([p \in 1..Len(call.ret) |-> call.ret[p].chunks], Len(call.ret))
              = StatsNow.total_chunks
\* two documents with three chunks between them, one written by the
\* legacy writer, are listed
C22_Witness ==
    /\ call.op = "list_documents"
    /\ Len(call.ret) = 2
    /\ {call.ret[1].chunks, call.ret[2].chunks} = {1, 2}
    /\ \E i \in 1..Len(Records) : "metadata" \notin DOMAIN Records[i]
    /\ StatsNow = [total_chunks |-> 3, total_documents |-> 2]

(***************************************************************************)
(* Claims about the stored records.                                        *)
(***************************************************************************)
\* C23: every stored record has a non-empty chunk_text, after any sequence
\* of store_document calls with any chunk lists.
C23_ChunkTextNonEmpty ==
    \A i \in 1..Len(Records) : Records[i].chunk_text # <<>>

(***************************************************************************)
(* SpecRace: two mutating calls on the flat file overlap.  A call is two   *)
(* steps, the _json_load at its start and the _json_save at its end; the   *)
(* steps of the two calls interleave in every order.  The storage and the  *)
(* provider work.  call holds both calls: what each was asked, how far it  *)
(* is, the records it loaded, and the log of the steps taken.              *)
(***************************************************************************)
\* what a mutating call may be asked
RaceRequests ==
    {[op |-> "store_document", chunks |-> c, document_name |-> n] :
        c \in SeqsOf({<<"alpha">>}, 1, 2), n \in DocNames}
    \cup {[op |-> "delete_document", document_name |-> n] : n \in DocNames}
NewChunks(request) == IF request.op = "store_document" THEN Len(request.chunks) ELSE 0
\* a saver that loads the file again just before it writes
race_saved_reloading(request, records, f, timestamp) ==
    IF request.op = "store_document"
    THEN FileRecords(f) \o
         [i \in 1..Len(request.chunks) |->
            store_document_record(request.chunks, request.document_name,
                store_document_metadata(PyNone, request.document_name, request.chunks,
                                        timestamp),
                [j \in 1..Len(request.chunks) |-> GoodResponse], i - 1)]
    ELSE delete_filter(FileRecords(f), request.document_name)
\* the list a call hands to _json_save, made from the records it loaded
\* (lines 84-95 and 302-307); the file f as it is by then plays no part
race_saved(request, records, f, timestamp) ==
    IF request.op = "store_document"
    THEN records \o
         [i \in 1..Len(request.chunks) |->
            store_document_record(request.chunks, request.document_name,
                store_document_metadata(PyNone, request.document_name, request.chunks,
                                        timestamp),
                [j \in 1..Len(request.chunks) |-> GoodResponse], i - 1)]
    ELSE delete_filter(records, request.document_name)

\* two callers enter store_document or delete_document at the same time
RaceBegin(r1, r2) ==
    /\ call = Idle
    /\ ~use_postgres
    /\ StoreLen + NewChunks(r1) + NewChunks(r2) <= MaxRecords
    /\ call' = [op |-> "overlap",
                threads |-> <<[request |-> r1, pc |-> "load", records |-> <<>>],
                              [request |-> r2, pc |-> "load", records |-> <<>>]>>,
                log |-> <<>>]
    /\ pre' = Store
    /\ UNCHANGED <<use_postgres, file, table, now, conn>>
\* records = self._json_load()
RaceLoad(t) ==
    /\ call.op = "overlap"
    /\ call.threads[t].pc = "load"
    /\ call' = [call EXCEPT !.threads[t].pc = "save",
                            !.threads[t].records = _json_load(file, "ok"),
                            !.log = Append(@, [step |-> "load", t |-> t])]
    /\ UNCHANGED <<use_postgres, file, table, now, conn, pre>>
\* self._json_save(records), after which the call returns
RaceSave(t) ==
    /\ call.op = "overlap"
    /\ call.threads[t].pc = "save"
    /\ file' = _json_save(file, race_saved(call.threads[t].request,
                                           call.threads[t].records, file, now), "ok")
    /\ call' = [call EXCEPT !.threads[t].pc = "done",
                            !.log = Append(@, [step |-> "save", t |-> t])]
    /\ UNCHANGED <<use_postgres, table, now, conn, pre>>
\* both calls have returned
RaceReturn ==
    /\ call.op = "overlap"
    /\ \A t \in 1..2 : call.threads[t].pc = "done"
    /\ Return
NextRace ==
    \/ \E r1, r2 \in RaceRequests : RaceBegin(r1, r2)
    \/ \E t \in 1..2 : RaceLoad(t)
    \/ \E t \in 1..2 : RaceSave(t)
    \/ RaceReturn
SpecRace == Init /\ [][NextRace]_vars

(***************************************************************************)
(* Claims about overlapping calls, read in SpecRace.                       *)
(***************************************************************************)
BothDone == call.op = "overlap" /\ \A t \in 1..2 : call.threads[t].pc = "done"
\* the call that saved last, and the other one
LastWriter == call.threads[call.log[Len(call.log)].t]
FirstWriter == call.threads[3 - call.log[Len(call.log)].t]
\* both calls loaded before either saved
FullOverlap ==
    \A i, j \in 1..Len(call.log) :
        (i < j /\ call.log[i].step = "save") => call.log[j].step = "save"
\* C24: on the flat file a mutation is a whole-file read-modify-write with
\* no coordination.  After a save the file holds what the saving call made
\* of the records it had loaded; so when two mutating calls overlap, both
\* loading before either saves, the file at the end is what the last
\* writer alone would have made of the file they started from, and the
\* other call's effect is lost.
C24_LastWriterWins ==
    /\ (call.op = "overlap" /\ call.log # <<>> /\ call.log[Len(call.log)].step = "save") =>
          Records = race_saved(LastWriter.request, LastWriter.records, pre.file, now)
    /\ (BothDone /\ FullOverlap) =>
          Records = race_saved(LastWriter.request, PreRecords, pre.file, now)
\* both calls have completed and the other call's effect is lost: the
\* records of a document stored by the first writer are missing, or the
\* records of a document deleted by the first writer are there again
C24_Witness ==
    /\ BothDone
    /\ \/ /\ FirstWriter.request.op = "store_document"
          /\ LastWriter.request.op = "store_document"
          /\ FirstWriter.request.document_name \notin NamesIn(Records)
       \/ /\ FirstWriter.request.op = "delete_document"
          /\ LastWriter.request.op = "store_document"
          /\ FirstWriter.request.document_name # LastWriter.request.document_name
          /\ FirstWriter.request.document_name \in NamesIn(Records)

(***************************************************************************)
(* SpecBatch: batches on the relational backend that break off.  A         *)
(* store_document of one to three chunks runs to the end, or a statement   *)
(* fails, or the process dies, after any number of its INSERTs.            *)
(***************************************************************************)
\* what the database and the process may do during a batch of n chunks
BatchOutcomes(n) ==
    {OkDb} \cup {[kind |-> k, after |-> a] : k \in {"stmt_error", "crash"}, a \in 0..n}
BatchStore ==
    \E chunks \in SeqsOf({<<"alpha">>, <<"beta">>}, 1, 3), document_name \in DocNames :
      \E db \in BatchOutcomes(Len(chunks)) :
        /\ use_postgres
        /\ StoreDocument(chunks, document_name, PyNone,
                         [i \in 1..Len(chunks) |-> GoodResponse], 0,
                         [rd |-> "ok", wr |-> "ok", db |-> db])
NextBatch == BatchStore \/ EmbedDelete \/ Return
SpecBatch == Init /\ [][NextBatch]_vars

(***************************************************************************)
(* Claims about batches, read in SpecBatch.                                *)
(***************************************************************************)
\* the store_document call in progress broke off after some, not all, of
\* its INSERTs
BrokeOffMidBatch ==
    /\ call.op = "store_document" /\ use_postgres
    /\ call.env.db.kind # "ok"
    /\ 0 < call.env.db.after /\ call.env.db.after < Len(call.chunks)
\* C25 as stated: on the relational backend a store_document of N chunks
\* is not atomic: a crash or failure after some but not all inserts leaves
\* a partial document persisted, the chunks inserted until then.
C25_PartialDocument ==
    BrokeOffMidBatch =>
        /\ Len(Records) = Len(PreRecords) + call.env.db.after
        /\ \A i \in 1..call.env.db.after :
              Records[Len(PreRecords) + i].chunk_text = call.chunks[i]
\* C25 as the code has it: on the relational backend a store_document of N
\* chunks is all or nothing.  The INSERTs run in one transaction that only
\* the commit after the loop makes durable, so a crash or failure after
\* some but not all inserts leaves none of the N chunks persisted, and a
\* batch that runs to the end leaves all N.
C25_BatchAllOrNothing ==
    (call.op = "store_document" /\ use_postgres) =>
        IF call.env.db.kind = "ok"
        THEN /\ Len(Records) = Len(PreRecords) + Len(call.chunks)
             /\ SubSeq(Records, 1, Len(PreRecords)) = PreRecords
        ELSE Records = PreRecords
\* a batch of two broke off after its first INSERT and the table holds the
\* one row it held before
C25_Witness ==
    /\ BrokeOffMidBatch
    /\ Len(call.chunks) = 2 /\ call.env.db.after = 1
    /\ Len(PreRecords) = 1 /\ Records = PreRecords

(***************************************************************************)
(* Claims about the storage connection.                                    *)
(***************************************************************************)
\* C26: every operation closes the storage connection it opened before it
\* returns, on the success path and on every failure path, so that no
\* connection is open when an operation has returned.
C26_ConnectionClosed ==
    call # Idle => conn # "open"

(***************************************************************************)
(* Claims about a load that fails.                                         *)
(***************************************************************************)
\* the _json_load of the flat-file call in progress failed: the read raised
\* or the text did not parse
LoadFailed ==
    ~use_postgres /\ (call.env.rd # "ok" \/ pre.file.kind = "corrupt")
\* C27: on the flat file a mutating call never discards records it failed
\* to read: when the load at the start of store_document or delete_document
\* fails, the call leaves the file's content as it was and does not
\* overwrite it with only the new records or with the empty array.
C27_FailedLoadKeepsFile ==
    (call.op \in {"store_document", "delete_document"} /\ LoadFailed) =>
        file = pre.file

(***************************************************************************)
(* Claims about the document name of a record.                             *)
(***************************************************************************)
\* the record was written by EnhancedVectorDB.store_document
HasMetadata(rec) == "metadata" \in DOMAIN rec
\* filters = {"document_name": X}
NameFilter(X) == "document_name" :> StrVal(X)
\* delete_document(X) of the backend in use removes the record
Deletes(rec, X) ==
    IF use_postgres THEN delete_document_postgres(<<rec>>, X, OkDb) = <<>>
    ELSE delete_filter(<<rec>>, X) = <<>>
\* the filter F of the backend in use selects the record
Selects(rec, F) ==
    IF use_postgres THEN pg_filter_match(rec, F) ELSE json_filter_match(rec, F)
\* C28: for every record written by store_document, metadata.document_name
\* equals the record's top-level document_name, also when the caller's
\* metadata had a document_name, timestamp, num_chunks or chunk_index of
\* its own; hence, among these records, delete_document(X) removes exactly
\* those that the filters {document_name: X} select.
C28_NameInMetadata ==
    \A i \in 1..Len(Records) :
        HasMetadata(Records[i]) =>
            /\ Records[i].metadata["document_name"] = StrVal(Records[i].document_name)
            /\ \A X \in DocNames :
                  Deletes(Records[i], X) <=> Selects(Records[i], NameFilter(X))
\* a.txt was stored with caller metadata that names b.txt
C28_Witness ==
    /\ call.op = "store_document" /\ ~CallFailed
    /\ call.document_name = "a.txt"
    /\ call.metadata # PyNone /\ call.metadata["document_name"] = StrVal("b.txt")
    /\ Len(call.chunks) = 1 /\ Len(Records) = 2
    /\ Records[2].document_name = "a.txt"
    /\ Deletes(Records[2], "a.txt") /\ Selects(Records[2], NameFilter("a.txt"))
    /\ ~Selects(Records[2], NameFilter("b.txt"))

(***************************************************************************)
(* Claims about the numbering of a document's chunks.                      *)
(***************************************************************************)
\* the positions of the stored records of a document
PositionsOf(name) == {i \in 1..Len(Records) : Records[i].document_name = name}
\* C29: in every reachable state, for every stored record written by
\* store_document, metadata.num_chunks is the number of stored records
\* with its document_name, and the chunk_index values of the records of a
\* document are exactly 0..num_chunks-1, none of them twice - also after
\* store_document was called again for a document that is already stored.
C29_ChunkNumbering ==
    \A i \in 1..Len(Records) :
        HasMetadata(Records[i]) =>
            LET P == PositionsOf(Records[i].document_name)
            IN  /\ Records[i].metadata["num_chunks"] = IntVal(Cardinality(P))
                /\ \A j \in P : HasMetadata(Records[j])
                /\ {Records[j].metadata["chunk_index"] : j \in P}
                      = {IntVal(k) : k \in 0..(Cardinality(P) - 1)}

(***************************************************************************)
(* SpecLimit: searches with any integer limit.  The store is filled as in  *)
(* SpecSearch and searched with limits below, at and above zero, as an     *)
(* agent's tool call may pass them on.                                     *)
(***************************************************************************)
LimitSearch ==
    \E q \in Queries, limit \in -2..1, rerank \in BOOLEAN :
        SearchSimilar(q.query, limit, PyNone, rerank, q.response, OkEnv)
NextLimit == SearchStore \/ SearchLegacyStore \/ SearchDelete \/ LimitSearch \/ Return
SpecLimit == Init /\ [][NextLimit]_vars

\* C30: search_similar returns at most max(limit, 0) results for every
\* integer limit, zero and negative values included, with rerank on or off.
C30_AtMostLimit ==
    Searched => Len(call.ret) <= Max(call.limit, 0)

====
